---------------------------- MODULE Spec2Model ----------------------------
(***************************************************************************)
(* A model of the data-reshaping core of src/visualizations.py:            *)
(*   group_observations         (family grouping, SpecGroup)               *)
(*   plot_relationship_network  (filters, weights, graph, SpecNet)         *)
(*   _from_ema_to_offsets       (address parsing, SpecEma)                 *)
(*   process_ngrams_df          (n-gram reshaping, SpecNgram)              *)
(* Strings that the code splits are sequences of one-token strings, so     *)
(* that splitting is computed and not assumed.  A missing value (NaN,      *)
(* None, pd.NA) is the value NA.                                           *)
(***************************************************************************)
EXTENDS Integers, Sequences, FiniteSets, TLC

VARIABLES
    pc,                 \* position of the running call
    groups,             \* group_observations: the dict `groups`
    rows_seen,          \* group_observations: the (x, y) rows iterated so far
    n_rows,             \* group_observations: number of rows iterated so far
    df,                 \* plot_relationship_network: the frame `df`
    pre,                \* the frame the family filter received
    selected_families,  \* the argument selected_families (a list)
    gone_members,       \* the list gone_members the family filter built
    printed,            \* the text handed to print (a list of printed lists)
    color,              \* the argument color
    nt_nodes,           \* pyvis Network: nt.nodes, in insertion order
    nt_edges,           \* pyvis Network: nt.edges, in insertion order
    nt_inherit,         \* pyvis Network: the edge colour inheritance
    ema_df,             \* _from_ema_to_offsets: the ema column of df, by row
    ema_out,            \* _from_ema_to_offsets: the rows of the frame returned
    ngrams_df,          \* process_ngrams_df: the argument ngrams_df
    ngrams_duration,    \* process_ngrams_df: the argument ngrams_duration
    voices,             \* process_ngrams_df: the argument voices
    selected_pattern,   \* process_ngrams_df: the argument selected_pattern
    ngrams_out,         \* process_ngrams_df: the rows of the frame returned
    score_ngrams,       \* score_ngram: the argument ngram, row by row
    score_method,       \* score_ngram: the argument method
    score_out           \* score_ngram: the entries of the series returned

\* a missing string cell
NA == "NA"

\* a numeric cell: a number, or missing (NaN, pd.NA)
Num(v) == [nan |-> FALSE, v |-> v]

NaN == [nan |-> TRUE, v |-> 0]

\* ------------------------------------------------------------------ bounds
MaxSeries == 3          \* rows of the series handed to group_observations

MaxFrame == 2           \* rows of the relationships table

MaxAddress == 4         \* characters of an ema address

MaxOffsets == 2         \* rows (offsets) of the n-gram table

MaxScoreRows == 2       \* rows of the table handed to score_ngram

\* ------------------------------------------------------------ str helpers

\* s[a..b] as a sequence (empty when a > b)
Slice(s, a, b) == [k \in 1..(b - a + 1) |-> s[a + k - 1]]

\* positions of the separator in s
SepPositions(s, sep) == {k \in 1..Len(s) : s[k] = sep}

Min(S) == CHOOSE k \in S : \A j \in S : k <= j

Max(S) == CHOOSE k \in S : \A j \in S : k >= j

\* str.split(sep, n=1)[0] and str.split(sep)[0]: the part before the first sep
SplitFirst(s, sep) ==
    IF SepPositions(s, sep) = {} THEN s
    ELSE Slice(s, 1, Min(SepPositions(s, sep)) - 1)

\* str.split(sep): all the pieces, empty ones included
RECURSIVE Split(_, _)
Split(s, sep) ==
    IF SepPositions(s, sep) = {} THEN <<s>>
    ELSE <<SplitFirst(s, sep)>>
         \o Split(Slice(s, Min(SepPositions(s, sep)) + 1, Len(s)), sep)

\* piece_id + ":" + ema
Combine(piece, ema) == piece \o <<":">> \o ema

\* ------------------------------------------------------ group_observations

GroupPieces == {<<"P1">>, <<"P2">>, <<"P3">>}

GroupMeasures == {<<"1">>, <<"2", "-", "3">>}

GroupIds == {Combine(p, m) : p \in GroupPieces, m \in GroupMeasures}

\* z.split(":")[0]
Root(z) == SplitFirst(z, ":")

\* groups.get(x.split(":")[0], set([x]))
GroupGet(g, x) == IF Root(x) \in DOMAIN g THEN g[Root(x)] ELSE {x}

JSet(g, x, y) == GroupGet(g, x) \cup GroupGet(g, y)

\* the keys the loop `for z in jset` writes
StaleKeys(g, x, y) == {Root(x), Root(y)}

WrittenKeys(g, x, y) == {Root(z) : z \in JSet(g, x, y)}

\* one iteration of the loop over model_series.index
GroupStep(g, x, y) ==
    LET jset == JSet(g, x, y)
        keys == WrittenKeys(g, x, y)
    IN [r \in DOMAIN g \cup keys |-> IF r \in keys THEN jset ELSE g[r]]

EmptyDict == [r \in {} |-> {}]

\* the whole function on two row-aligned series
RECURSIVE GroupFrom(_, _, _, _)
GroupFrom(g, ms, ds, k) ==
    IF k > Len(ms) THEN g
    ELSE GroupFrom(GroupStep(g, ms[k], ds[k]), ms, ds, k + 1)

group_observations(ms, ds) == GroupFrom(EmptyDict, ms, ds, 1)

groupVars == <<groups, rows_seen, n_rows>>

netVars ==
    <<df, pre, selected_families, gone_members, printed, color, nt_nodes, nt_edges,
      nt_inherit>>

emaVars == <<ema_df, ema_out>>

ngramVars == <<ngrams_df, ngrams_duration, voices, selected_pattern, ngrams_out>>

scoreVars == <<score_ngrams, score_method, score_out>>

ScoreIdle == score_ngrams = <<>> /\ score_method = NA /\ score_out = <<>>

\* an argument left at None
NoTable == [given |-> FALSE]

NgramIdle ==
    /\ ngrams_df = NoTable
    /\ ngrams_duration = NoTable
    /\ voices = {}
    /\ selected_pattern = {}
    /\ ngrams_out = <<>>

EmaIdle == ema_df = <<>> /\ ema_out = <<>>

GroupIdle == groups = EmptyDict /\ rows_seen = {} /\ n_rows = 0

NetIdle ==
    /\ df = <<>>
    /\ pre = <<>>
    /\ selected_families = <<>>
    /\ gone_members = <<>>
    /\ printed = <<>>
    /\ color = NA
    /\ nt_nodes = <<>>
    /\ nt_edges = <<>>
    /\ nt_inherit = NA

GroupInit ==
    /\ pc = "group_loop"
    /\ groups = EmptyDict
    /\ rows_seen = {}
    /\ n_rows = 0
    /\ NetIdle
    /\ EmaIdle
    /\ NgramIdle
    /\ ScoreIdle

GroupRow ==
    /\ pc = "group_loop"
    /\ n_rows < MaxSeries
    /\ \E x \in GroupIds, y \in GroupIds :
          /\ groups' = GroupStep(groups, x, y)
          /\ rows_seen' = rows_seen \cup {<<x, y>>}
    /\ n_rows' = n_rows + 1
    /\ pc' = pc
    /\ UNCHANGED <<netVars, emaVars, ngramVars, scoreVars>>

GroupReturn ==
    /\ pc = "group_loop"
    /\ pc' = "group_returned"
    /\ UNCHANGED <<groupVars, netVars, emaVars, ngramVars, scoreVars>>

vars == <<pc, groupVars, netVars, emaVars, ngramVars, scoreVars>>

GroupNext == GroupRow \/ GroupReturn

SpecGroup == GroupInit /\ [][GroupNext]_vars

\* --------------------------------------------------- claims: family groups

IdsSeen == {r[1] : r \in rows_seen} \cup {r[2] : r \in rows_seen}

RootsSeen == {Root(z) : z \in IdsSeen}

\* roots joined by one row
RootLinks == {<<Root(r[1]), Root(r[2])>> : r \in rows_seen}

RECURSIVE LinkedFrom(_)
LinkedFrom(S) ==
    LET more == S \cup {l[2] : l \in {m \in RootLinks : m[1] \in S}}
                  \cup {l[1] : l \in {m \in RootLinks : m[2] \in S}}
    IN IF more = S THEN S ELSE LinkedFrom(more)

\* the roots linked to r by a chain of rows
Linked(r) == LinkedFrom({r})

\* C1: after the full pass, whenever two piece roots are linked by a chain of
\* rows, the group stored under one holds a composite id of the other.
C1_FamilyClosure ==
    pc = "group_returned" =>
        \A r1 \in RootsSeen : \A r2 \in Linked(r1) :
            /\ r1 \in DOMAIN groups
            /\ \E z \in groups[r1] : Root(z) = r2

\* a chain over three pieces has been processed
C1_Witness ==
    /\ pc = "group_returned"
    /\ <<Combine(<<"P1">>, <<"1">>), Combine(<<"P2">>, <<"1">>)>> \in rows_seen
    /\ <<Combine(<<"P2">>, <<"1">>), Combine(<<"P3">>, <<"1">>)>> \in rows_seen
    /\ Cardinality(rows_seen) = 2
    /\ \E z \in groups[<<"P1">>] : Root(z) = <<"P3">>

RECURSIVE IdsLinkedFrom(_)
IdsLinkedFrom(S) ==
    LET more == S \cup {r[2] : r \in {m \in rows_seen : m[1] \in S}}
                  \cup {r[1] : r \in {m \in rows_seen : m[2] \in S}}
    IN IF more = S THEN S ELSE IdsLinkedFrom(more)

\* ids that occur together in a row, directly or through a chain of rows
SameFamily(z1, z2) == z2 \in IdsLinkedFrom({z1})

\* C2: after the full pass the groups partition the ids seen: every id that
\* occurred in a row is a member of exactly one group, the one stored under
\* its root, and ids joined by rows are members of the same group.
C2_Partition ==
    pc = "group_returned" =>
        /\ \A z \in IdsSeen :
              /\ Root(z) \in DOMAIN groups
              /\ z \in groups[Root(z)]
              /\ \A r \in DOMAIN groups :
                    z \in groups[r] => groups[r] = groups[Root(z)]
        /\ \A z1 \in IdsSeen : \A z2 \in IdsSeen :
              SameFamily(z1, z2) =>
                  /\ Root(z1) \in DOMAIN groups
                  /\ {z1, z2} \subseteq groups[Root(z1)]

\* ----------------------------------------------- plot_relationship_network

RELATIONSHIP_WEIGHTS ==
    ("Quotation" :> 1)
    @@ ("Mechanical transformation" :> 2)
    @@ ("Non-mechanical transformation" :> 3)
    @@ ("New material" :> 4)
    @@ ("Omission" :> 5)
    @@ ("Quotation, Mechanical transformation" :> 6)
    @@ ("Quotation, Non-mechanical transformation" :> 7)
    @@ ("Non-mechanical transformation, Omission" :> 8)
    @@ ("Mechanical transformation, Non-mechanical transformation" :> 9)
    @@ ("Quotation, New material" :> 10)
    @@ ("Quotation, Mechanical transformation, Non-mechanical transformation" :> 11)

NetPieces == {<<"P1">>, <<"P2">>}

\* (model ema, derivative ema) of a row; "2/9" carries a suffix after "/"
NetEmas ==
    {<<(<<"1">>), (<<"1">>)>>,
     <<(<<"2", "/", "9">>), (<<"2", "/", "9">>)>>,
     <<(<<"2", "/", "9">>), (<<"1">>)>>}

\* a type of the weight table, a type outside it, a missing type
NetTypes == {"Quotation", "Cantus firmus", NA}

RawRows ==
    {[mp |-> a, mema |-> e[1], dp |-> b, dema |-> e[2], rtype |-> t] :
        a \in NetPieces, b \in NetPieces, e \in NetEmas, t \in NetTypes}

Frames == UNION {[1..k -> RawRows] : k \in 0..MaxFrame}

SelTypes == {{}, {"Quotation"}}

SelModels == {{}, {<<"P1">>}}

SelDerivatives == {{}, {<<"P2">>}}

SelFamilies == {<<>>, <<(<<"P1">>)>>, <<(<<"P2">>)>>, <<(<<"P3">>), (<<"P1">>)>>}

Colors == {"derivative", "model", "piece"}

\* one row of _trim_and_combine_piece_ids_with_measures
Trim(r) ==
    [mp |-> r.mp,
     mema |-> SplitFirst(r.mema, "/"),
     dp |-> r.dp,
     dema |-> SplitFirst(r.dema, "/"),
     rtype |-> r.rtype,
     model |-> Combine(r.mp, SplitFirst(r.mema, "/")),
     derivative |-> Combine(r.dp, SplitFirst(r.dema, "/"))]

TrimFrame(f) == [k \in 1..Len(f) |-> Trim(f[k])]

\* dropna(how='all'): a row goes only when every column of it is missing
\* (in the frames drawn here only relationship_type can be missing)
Missing(r, c) == IF c = "rtype" THEN r[c] = NA ELSE FALSE

AllMissing(r) == \A c \in DOMAIN r : Missing(r, c)

DropNaAll(f) == SelectSeq(f, LAMBDA r : ~AllMissing(r))

\* df[df[col].isin(sel)].dropna(how='all'), skipped for an empty list
FilterTypes(f, sel) ==
    IF sel = {} THEN f ELSE DropNaAll(SelectSeq(f, LAMBDA r : r.rtype \in sel))

FilterModels(f, sel) ==
    IF sel = {} THEN f ELSE DropNaAll(SelectSeq(f, LAMBDA r : r.mp \in sel))

FilterDerivatives(f, sel) ==
    IF sel = {} THEN f ELSE DropNaAll(SelectSeq(f, LAMBDA r : r.dp \in sel))

ModelCol(f) == [k \in 1..Len(f) |-> f[k].model]

DerivativeCol(f) == [k \in 1..Len(f) |-> f[k].derivative]

FamiliesDict(f) == group_observations(ModelCol(f), DerivativeCol(f))

SeqRange(q) == {q[k] : k \in 1..Len(q)}

\* the union of the groups of the members that are keys of families_dict
Relatives(f, sel) ==
    LET families_dict == FamiliesDict(f)
    IN UNION {families_dict[m] : m \in SeqRange(sel) \cap DOMAIN families_dict}

GoneNone(f, sel) == <<>>

GoneMembers(f, sel) ==
    LET families_dict == FamiliesDict(f)
    IN SelectSeq(sel, LAMBDA m : m \notin DOMAIN families_dict)

FamilyRows(f, sel) ==
    LET relatives == Relatives(f, sel)
    IN SelectSeq(f, LAMBDA r : r.model \in relatives \/ r.derivative \in relatives)

FamilyFilter(f, sel) == IF sel = <<>> THEN f ELSE DropNaAll(FamilyRows(f, sel))

\* the notice about members that are no key of families_dict
GoneNotice(f, sel) ==
    LET gone == GoneMembers(f, sel)
    IN IF sel # <<>> /\ gone # <<>>
       THEN <<[count |-> Len(gone), members |-> gone]>>
       ELSE <<>>

\* df['relationship_type'].map(weights_dict, na_action='ignore'): a float
\* column (in tenths here), missing where the type is missing or no key
MapWeight(t) ==
    IF t = NA THEN NaN
    ELSE IF t \in DOMAIN RELATIONSHIP_WEIGHTS THEN Num(10 * RELATIONSHIP_WEIGHTS[t])
    ELSE NaN

KeepNa(w) == w

\* fillna(0)
FillNa(w) == IF w.nan THEN Num(0) ELSE w

Weighted(f) ==
    [k \in 1..Len(f) |->
        [c \in DOMAIN f[k] \cup {"weight"} |->
            IF c = "weight" THEN FillNa(MapWeight(f[k].rtype)) ELSE f[k][c]]]

\* int(): the float (in tenths) truncated to an integer
PyInt(w) == w.v \div 10

NoGroup == "no group"

NodeIds(nodes) == {nodes[k].id : k \in 1..Len(nodes)}

\* nt.add_node(n_id, group=...): an id already in the network is left as it is
AddNode(nodes, id, group) ==
    IF id \in NodeIds(nodes) THEN nodes
    ELSE Append(nodes, [id |-> id, group |-> group])

NormalOf(r, c) == IF c = "derivative" THEN r.model ELSE r.derivative

ColoredOf(r, c) == IF c = "derivative" THEN r.derivative ELSE r.model

\* nt.add_nodes(df[normal_nodes_column])
RECURSIVE AddNormalNodes(_, _, _, _)
AddNormalNodes(nodes, f, c, k) ==
    IF k > Len(f) THEN nodes
    ELSE AddNormalNodes(AddNode(nodes, NormalOf(f[k], c), NoGroup), f, c, k + 1)

\* the loop over df[colored_nodes_column].index
RECURSIVE AddColoredNodes(_, _, _, _)
AddColoredNodes(nodes, f, c, k) ==
    IF k > Len(f) THEN nodes
    ELSE AddColoredNodes(AddNode(nodes, ColoredOf(f[k], c), f[k].rtype), f, c, k + 1)

EdgeOf(r) ==
    [from |-> r.model, to |-> r.derivative, value |-> PyInt(r.weight),
     title |-> r.rtype]

MergeEdge(edges, e) ==
    IF \E k \in 1..Len(edges) : edges[k].from = e.from /\ edges[k].to = e.to
    THEN edges
    ELSE Append(edges, e)

\* nt.add_edge on a directed Network: appended, no test for an existing edge
AddEdge(edges, e) == Append(edges, e)

\* the loop over df.index
RECURSIVE AddEdges(_, _, _)
AddEdges(edges, f, k) ==
    IF k > Len(f) THEN edges
    ELSE AddEdges(AddEdge(edges, EdgeOf(f[k])), f, k + 1)

AnyColor(c) == TRUE

\* the if / elif chain on color: anything else reaches the raise
ValidColor(c) == c \in {"derivative", "model"}

NetInit ==
    /\ pc = "net_start"
    /\ GroupIdle
    /\ df \in Frames
    /\ pre = <<>>
    /\ selected_families = <<>>
    /\ gone_members = <<>>
    /\ printed = <<>>
    /\ color = NA
    /\ nt_nodes = <<>>
    /\ nt_edges = <<>>
    /\ nt_inherit = NA
    /\ EmaIdle
    /\ NgramIdle
    /\ ScoreIdle

\* lines 521-530: trim, then the type, model and derivative filters
NetFilter ==
    /\ pc = "net_start"
    /\ \E st \in SelTypes, sm \in SelModels, sd \in SelDerivatives :
          df' = FilterDerivatives(FilterModels(FilterTypes(TrimFrame(df), st), sm), sd)
    /\ pc' = "net_filtered"
    /\ UNCHANGED <<groupVars, emaVars, ngramVars, scoreVars, pre, selected_families, gone_members,
                   printed, color, nt_nodes, nt_edges, nt_inherit>>

\* lines 531-545: the family filter
NetFamily ==
    /\ pc = "net_filtered"
    /\ \E sf \in SelFamilies :
          /\ selected_families' = sf
          /\ gone_members' = IF sf = <<>> THEN <<>> ELSE GoneMembers(df, sf)
          /\ printed' = printed \o GoneNotice(df, sf)
          /\ df' = FamilyFilter(df, sf)
    /\ pre' = df
    /\ pc' = "net_family"
    /\ UNCHANGED <<groupVars, emaVars, ngramVars, scoreVars, color, nt_nodes, nt_edges, nt_inherit>>

\* lines 547-574: the weights, then the network
NetBuild ==
    /\ pc = "net_family"
    /\ df' = Weighted(df)
    /\ \E c \in Colors :
          /\ color' = c
          /\ IF ValidColor(c)
             THEN /\ nt_nodes' = AddColoredNodes(AddNormalNodes(<<>>, Weighted(df), c, 1),
                                                 Weighted(df), c, 1)
                  /\ nt_edges' = AddEdges(<<>>, Weighted(df), 1)
                  /\ nt_inherit' = IF c = "derivative" THEN "to" ELSE "from"
                  /\ pc' = "net_done"
             ELSE /\ pc' = "net_raised"
                  /\ UNCHANGED <<nt_nodes, nt_edges, nt_inherit>>
    /\ UNCHANGED <<groupVars, emaVars, ngramVars, scoreVars, pre, selected_families, gone_members,
                   printed>>

NetNext == NetFilter \/ NetFamily \/ NetBuild

SpecNet == NetInit /\ [][NetNext]_vars

\* ------------------------------------- claims: plot_relationship_network

\* pieces joined by one row of the frame the family filter received
PieceLinks == {<<pre[k].mp, pre[k].dp>> : k \in 1..Len(pre)}

RECURSIVE RelatedFrom(_)
RelatedFrom(S) ==
    LET more == S \cup {l[2] : l \in {m \in PieceLinks : m[1] \in S}}
                  \cup {l[1] : l \in {m \in PieceLinks : m[2] \in S}}
    IN IF more = S THEN S ELSE RelatedFrom(more)

\* the pieces with a direct or indirect relationship with a selected piece
RelatedPieces == RelatedFrom(SeqRange(selected_families))

\* a frame of relationships between two different observations, all typed
Ordinary(f) ==
    \A k \in 1..Len(f) : f[k].model # f[k].derivative /\ f[k].rtype # NA

\* C3: with selected_families given, the family filter keeps every row whose
\* model piece or derivative piece is related, directly or indirectly, to a
\* selected piece, and keeps no row with both ids outside the union of the
\* selected pieces' groups.  (Stated for ordinary frames, where it already fails.)
C3_FamilyFilter ==
    (pc = "net_family" /\ selected_families # <<>> /\ Ordinary(pre)) =>
        /\ df = SelectSeq(pre, LAMBDA r : r.mp \in RelatedPieces
                                          \/ r.dp \in RelatedPieces)
        /\ \A k \in 1..Len(df) :
              \/ df[k].model \in Relatives(pre, selected_families)
              \/ df[k].derivative \in Relatives(pre, selected_families)

\* the weight the table gives a type, 0 for any other type or a missing one
TableWeight(t) ==
    IF t # NA /\ t \in DOMAIN RELATIONSHIP_WEIGHTS THEN RELATIONSHIP_WEIGHTS[t] ELSE 0

\* C4: the weight of a row is total over relationship types: the table value
\* (an integer 1..11) for a key of RELATIONSHIP_WEIGHTS, 0 for every other
\* type and for a missing type.
C4_WeightTotal ==
    pc \in {"net_done", "net_raised"} =>
        \A k \in 1..Len(df) :
            /\ ~df[k].weight.nan
            /\ df[k].weight.v = 10 * TableWeight(df[k].rtype)
            /\ df[k].rtype \in DOMAIN RELATIONSHIP_WEIGHTS
                  => PyInt(df[k].weight) \in 1..11
            /\ df[k].rtype \notin DOMAIN RELATIONSHIP_WEIGHTS
                  => PyInt(df[k].weight) = 0

\* a frame with a type of the table and a type outside it has been weighted
C4_Witness ==
    /\ pc = "net_done"
    /\ \E k \in 1..Len(df) : df[k].rtype = "Quotation" /\ PyInt(df[k].weight) = 1
    /\ \E k \in 1..Len(df) : df[k].rtype \in {"Cantus firmus", NA}
                             /\ PyInt(df[k].weight) = 0

\* C5: every surviving row becomes exactly one directed edge from its model
\* id to its derivative id with the row's integer weight and its type as
\* label; rows between the same pair give parallel edges.
C5_OneEdgePerRow ==
    pc = "net_done" =>
        /\ Len(nt_edges) = Len(df)
        /\ \A k \in 1..Len(df) :
              nt_edges[k] = [from |-> df[k].model, to |-> df[k].derivative,
                             value |-> TableWeight(df[k].rtype),
                             title |-> df[k].rtype]

\* two rows between the same pair of ids gave two edges
C5_Witness ==
    /\ pc = "net_done"
    /\ Len(df) = 2
    /\ df[1].model = df[2].model
    /\ df[1].derivative = df[2].derivative
    /\ Len(nt_edges) = 2
    /\ nt_edges[1].from = nt_edges[2].from
    /\ nt_edges[1].to = nt_edges[2].to

GroupOfNode(id) == (CHOOSE k \in 1..Len(nt_nodes) : nt_nodes[k].id = id)

\* C6: in either colouring mode every node that is the coloured endpoint
\* (derivative, or model in 'model' mode) of a surviving row carries a group
\* equal to the relationship type of a row it is the coloured endpoint of,
\* and a node that is only the other endpoint is plain; for every input.
\* (Stated for ordinary frames, where it already fails.)
C6_ColouredNodes ==
    (pc = "net_done" /\ Ordinary(df)) =>
        \A k \in 1..Len(df) :
            /\ ColoredOf(df[k], color) \in NodeIds(nt_nodes)
            /\ nt_nodes[GroupOfNode(ColoredOf(df[k], color))].group # NoGroup
            /\ nt_nodes[GroupOfNode(ColoredOf(df[k], color))].group
                  \in {df[j].rtype : j \in {i \in 1..Len(df) :
                          ColoredOf(df[i], color) = ColoredOf(df[k], color)}}
            /\ (\A j \in 1..Len(df) : ColoredOf(df[j], color) # NormalOf(df[k], color))
                  => nt_nodes[GroupOfNode(NormalOf(df[k], color))].group = NoGroup

\* ---------------------------------------------------- _from_ema_to_offsets

EmaChars == {"3", "5", "-", ",", "/", "b"}

BoundedAddresses == UNION {[1..k -> EmaChars] : k \in 0..MaxAddress}

Address_3_5_7 == <<"3", "-", "5", ",", "7", "/", "2">>

Address_bad == <<"b", "a", "d", "-", "a", "d", "d", "r">>

Addresses == BoundedAddresses \cup {Address_3_5_7, Address_bad}

\* the addresses of a second row of the table
OtherAddresses == {<<"7">>, <<"3", "-", "5">>, <<"1", "-", "2", "-", "3">>}

EmaTables ==
    {<<a>> : a \in Addresses} \cup {<<a, b>> : a \in Addresses, b \in OtherAddresses}

Digits == {"0", "1", "2", "3", "4", "5", "6", "7", "8", "9"}

DigitValue(c) ==
    CASE c = "0" -> 0 [] c = "1" -> 1 [] c = "2" -> 2 [] c = "3" -> 3 [] c = "4" -> 4
      [] c = "5" -> 5 [] c = "6" -> 6 [] c = "7" -> 7 [] c = "8" -> 8 [] c = "9" -> 9

\* num.isdigit(), for the ASCII strings drawn here
IsDigit(num) == Len(num) > 0 /\ \A k \in 1..Len(num) : num[k] \in Digits

\* int(num) of a string of digits
RECURSIVE IntOf(_)
IntOf(num) ==
    IF Len(num) = 0 THEN 0
    ELSE 10 * IntOf(Slice(num, 1, Len(num) - 1)) + DigitValue(num[Len(num)])

\* lambda num: int(num) if num.isdigit() else pd.NA
ToInt(num) == IF IsDigit(num) THEN Num(IntOf(num)) ELSE NaN

\* df[ema_column].str.split("/", n=1, expand=True)[0], then .str.split(",")
Locations(a) == Split(SplitFirst(a, "/"), ",")

\* df.explode('locations', ignore_index=True): one row per location, each
\* with the label its address had in the caller's index (0, 1, ...)
RECURSIVE Explode(_, _)
Explode(t, k) ==
    IF k > Len(t) THEN <<>>
    ELSE [j \in 1..Len(Locations(t[k])) |->
             [index |-> k - 1, locations |-> Locations(t[k])[j]]]
         \o Explode(t, k + 1)

\* df['locations'].str.split("-", expand=True): as many columns as the
\* longest split of the whole column has pieces
SplitWidth(x) == Max({Len(Split(x[k].locations, "-")) : k \in 1..Len(x)})

NoFill(parts, j) == IF j <= Len(parts) THEN parts[j] ELSE <<"None">>

\* cell j of a row after fillna(method='ffill', axis=1): a missing cell takes
\* the value of the last cell the split filled
FFill(parts, j) == IF j <= Len(parts) THEN parts[j] ELSE parts[Len(parts)]

OffsetRow(r) ==
    [index |-> r.index,
     locations |-> r.locations,
     start |-> ToInt(FFill(Split(r.locations, "-"), 1)),
     end |-> ToInt(FFill(Split(r.locations, "-"), 2))]

\* the labels of the rows with a missing start or end (with repeats)
InvalidRows(out) ==
    LET bad == SelectSeq(out, LAMBDA r : r.start.nan \/ r.end.nan)
    IN [k \in 1..Len(bad) |-> bad[k].index]

InvalidNotice(out) ==
    IF \E k \in 1..Len(out) : out[k].start.nan \/ out[k].end.nan
    THEN <<[rows |-> InvalidRows(out)]>>
    ELSE <<>>

EmaInit ==
    /\ pc = "ema_start"
    /\ GroupIdle
    /\ NetIdle
    /\ ema_df \in EmaTables
    /\ ema_out = <<>>
    /\ NgramIdle
    /\ ScoreIdle

\* the whole call; the assignment to df[['start', 'end']] raises ValueError
\* unless the split frame has exactly two columns
EmaOffsets ==
    /\ pc = "ema_start"
    /\ LET x == Explode(ema_df, 1)
           out == [k \in 1..Len(x) |-> OffsetRow(x[k])]
       IN IF SplitWidth(x) = 2
          THEN /\ ema_out' = out
               /\ printed' = printed \o InvalidNotice(out)
               /\ pc' = "ema_done"
          ELSE /\ pc' = "ema_raised"
               /\ UNCHANGED <<ema_out, printed>>
    /\ UNCHANGED <<groupVars, ngramVars, scoreVars, ema_df, df, pre, selected_families,
                   gone_members, color, nt_nodes, nt_edges, nt_inherit>>

EmaNext == EmaOffsets

SpecEma == EmaInit /\ [][EmaNext]_vars

\* ------------------------------------------ claims: _from_ema_to_offsets

\* a number, or two numbers joined by "-"
ValidRange(loc) ==
    /\ Len(Split(loc, "-")) \in {1, 2}
    /\ \A j \in 1..Len(Split(loc, "-")) : IsDigit(Split(loc, "-")[j])

ValidTable(t) ==
    \A k \in 1..Len(t) : \A j \in 1..Len(Locations(t[k])) : ValidRange(Locations(t[k])[j])

\* the row the claim gives a range: start and end split on "-", and a lone
\* number as both
ClaimedRow(i, loc) ==
    [index |-> i,
     locations |-> loc,
     start |-> ToInt(Split(loc, "-")[1]),
     end |-> ToInt(Split(loc, "-")[Len(Split(loc, "-"))])]

RECURSIVE ClaimedRows(_, _)
ClaimedRows(t, k) ==
    IF k > Len(t) THEN <<>>
    ELSE [j \in 1..Len(Locations(t[k])) |-> ClaimedRow(k - 1, Locations(t[k])[j])]
         \o ClaimedRows(t, k + 1)

\* C7: the part before the first "/" gives one (start, end) row per
\* comma-separated range, split on "-", a lone number giving start = end;
\* "3-5,7/2" yields (3,5) and (7,7), "bad-addr" one (null, null) row listed in
\* the diagnostic.  (Stated for tables of valid ranges and the two examples.)
C7_OffsetsPerRange ==
    (pc # "ema_start" /\ (ValidTable(ema_df) \/ ema_df = <<Address_bad>>)) =>
        /\ pc = "ema_done"
        /\ ema_out = ClaimedRows(ema_df, 1)
        /\ ema_df = <<Address_3_5_7>> =>
              /\ Len(ema_out) = 2
              /\ ema_out[1].start = Num(3) /\ ema_out[1].end = Num(5)
              /\ ema_out[2].start = Num(7) /\ ema_out[2].end = Num(7)
        /\ ema_df = <<Address_bad>> =>
              /\ Len(ema_out) = 1
              /\ ema_out[1].start = NaN /\ ema_out[1].end = NaN
              /\ printed = <<[rows |-> <<0>>]>>

\* C8 as stated: every row has start and end both non-negative integers with
\* start <= end, or both invalid.
C8_BothOrNeither ==
    pc = "ema_done" =>
        \A k \in 1..Len(ema_out) :
            \/ /\ ~ema_out[k].start.nan
               /\ ~ema_out[k].end.nan
               /\ 0 <= ema_out[k].start.v
               /\ ema_out[k].start.v <= ema_out[k].end.v
            \/ ema_out[k].start.nan /\ ema_out[k].end.nan

\* C8 amended: whenever the function returns, start and end of every row are
\* each a non-negative integer or invalid, decided per field (start from the
\* text before the "-", end from the text after it), and a range without "-"
\* has start = end; rows with one invalid field or with start > end do occur.
C8_PerField ==
    pc = "ema_done" =>
        \A k \in 1..Len(ema_out) :
            LET parts == Split(ema_out[k].locations, "-")
            IN /\ ema_out[k].start.nan \/ ema_out[k].start.v >= 0
               /\ ema_out[k].end.nan \/ ema_out[k].end.v >= 0
               /\ ema_out[k].start.nan <=> ~IsDigit(parts[1])
               /\ Len(parts) = 2 => (ema_out[k].end.nan <=> ~IsDigit(parts[2]))
               /\ Len(parts) = 1 => ema_out[k].end = ema_out[k].start

\* "3-,5" gave a row with one invalid field and a lone number with
\* start = end
C8_Witness ==
    /\ pc = "ema_done"
    /\ ema_df = <<(<<"3", "-", ",", "5">>)>>
    /\ ema_out[1].start = Num(3) /\ ema_out[1].end = NaN
    /\ ema_out[2].start = Num(5) /\ ema_out[2].end = Num(5)
    /\ printed = <<[rows |-> <<0>>]>>

\* -------------------------------------------------------- process_ngrams_df

\* Numbers of the float columns start, duration and end are in tenths.

Voices == <<"S", "A">>

Patterns == {"p", "q", NA}

\* 2.5 and 1.0
Durations == {Num(25), Num(10)}

\* the offsets of a table of R rows: 10, 20, ...
OffsetIndex(R) == [i \in 1..R |-> 10 * i]

\* the tables of R rows with one column per voice and cells drawn from C
Tables(R, C) ==
    {[given |-> TRUE, index |-> OffsetIndex(R), columns |-> Voices, cells |-> m] :
        m \in [1..R -> [1..Len(Voices) -> C]]}

NgramTables == UNION {Tables(R, Patterns) : R \in 1..MaxOffsets}

\* None, or a duration table of the shape of t
DurationTables(t) == {NoTable} \cup Tables(Len(t.index), Durations)

VoiceSelections == {{}, {"S"}}

PatternSelections == {{}, {"p"}}

\* astype(float)
AsFloat(v) == Num(10 * v)

\* _process_ngrams_df_helper: reset_index().melt(id_vars=["start"]): the
\* columns one after the other, each with every offset; rows labelled 0, 1, ...
Melt(t) ==
    [q \in 1..(Len(t.index) * Len(t.columns)) |->
        [start |-> AsFloat(t.index[((q - 1) % Len(t.index)) + 1]),
         voice |-> t.columns[((q - 1) \div Len(t.index)) + 1],
         value |-> t.cells[((q - 1) % Len(t.index)) + 1]
                          [((q - 1) \div Len(t.index)) + 1]]]

\* the sum of two float cells
Add(a, b) == IF a.nan \/ b.nan THEN NaN ELSE Num(a.v + b.v)

\* the duration the sum finds under row label q - 1 (missing when the melted
\* duration frame has no such label)
DurationAt(md, q) == IF q <= Len(md) THEN md[q].value ELSE NaN

ForgetStart(start, duration) == duration

\* ngrams_df['start'] + ngrams_duration['duration'], one row
EndOf(start, duration) == Add(start, duration)

WithEnd(t, d) ==
    LET mp == Melt(t)
        md == IF d.given THEN Melt(d) ELSE <<>>
    IN [q \in 1..Len(mp) |->
          [label |-> q - 1,
           start |-> mp[q].start,
           voice |-> mp[q].voice,
           pattern |-> mp[q].value,
           end |-> IF d.given THEN EndOf(mp[q].start, DurationAt(md, q))
                   ELSE Add(mp[q].start, Num(10))]]

NgAnyMissing(r) == r.start.nan \/ r.voice = NA \/ r.pattern = NA \/ r.end.nan

NgDropNaAny(f) == SelectSeq(f, LAMBDA r : ~NgAnyMissing(r))

NgAllMissing(r) == r.start.nan /\ r.voice = NA /\ r.pattern = NA /\ r.end.nan

\* dropna(how='all')
NgDropNaAll(f) == SelectSeq(f, LAMBDA r : ~NgAllMissing(r))

FilterVoices(f, sel) ==
    IF sel = {} THEN f ELSE NgDropNaAll(SelectSeq(f, LAMBDA r : r.voice \in sel))

FilterPatterns(f, sel) ==
    IF sel = {} THEN f ELSE NgDropNaAll(SelectSeq(f, LAMBDA r : r.pattern \in sel))

NgramInit ==
    /\ pc = "ngram_start"
    /\ GroupIdle
    /\ NetIdle
    /\ EmaIdle
    /\ ngrams_df \in NgramTables
    /\ ngrams_duration \in DurationTables(ngrams_df)
    /\ voices = {}
    /\ selected_pattern = {}
    /\ ngrams_out = <<>>
    /\ ScoreIdle

\* the whole call
NgramProcess ==
    /\ pc = "ngram_start"
    /\ \E vs \in VoiceSelections, sp \in PatternSelections :
          /\ voices' = vs
          /\ selected_pattern' = sp
          /\ ngrams_out' =
                FilterPatterns(FilterVoices(WithEnd(ngrams_df, ngrams_duration), vs), sp)
    /\ pc' = "ngram_done"
    /\ UNCHANGED <<groupVars, netVars, emaVars, scoreVars, ngrams_df, ngrams_duration>>

NgramNext == NgramProcess

SpecNgram == NgramInit /\ [][NgramNext]_vars

\* ---------------------------------------------- claims: process_ngrams_df

\* the rows of the table with offset start (a float), the columns of a voice
RowsAt(t, start) == {i \in 1..Len(t.index) : AsFloat(t.index[i]) = start}

ColumnsOf(t, voice) == {j \in 1..Len(t.columns) : t.columns[j] = voice}

\* C9: for every row returned, with a duration table of the same shape end is
\* start plus the duration at the same offset and voice, filters or not; with
\* no duration table end = start + 1.
C9_EndOfRow ==
    pc = "ngram_done" =>
        \A k \in 1..Len(ngrams_out) :
            LET r == ngrams_out[k]
            IN IF ngrams_duration.given
               THEN \A i \in RowsAt(ngrams_duration, r.start) :
                      \A j \in ColumnsOf(ngrams_duration, r.voice) :
                         /\ ~r.end.nan
                         /\ r.end.v = r.start.v + ngrams_duration.cells[i][j].v
               ELSE r.end = Num(r.start.v + 10)

\* a voices filter was given and, in a table of two offsets, voice "S" at
\* offset 20 lasts 2.5 and every other cell 1.0: its row runs from 20.0 to 22.5
C9_Witness ==
    /\ pc = "ngram_done"
    /\ voices = {"S"}
    /\ ngrams_duration.given
    /\ Len(ngrams_duration.index) = 2
    /\ ngrams_duration.cells[2][1] = Num(25)
    /\ ngrams_duration.cells[1][1] = Num(10)
    /\ ngrams_duration.cells[1][2] = Num(10)
    /\ ngrams_duration.cells[2][2] = Num(10)
    /\ \E k \in 1..Len(ngrams_out) :
          /\ ngrams_out[k].voice = "S"
          /\ ngrams_out[k].start = Num(200)
          /\ ngrams_out[k].end = Num(225)

\* C10 as stated: the table returned holds no row whose pattern is missing,
\* with or without filters.
C10_NoMissingPattern ==
    pc = "ngram_done" =>
        \A k \in 1..Len(ngrams_out) : ngrams_out[k].pattern # NA

\* the cells of the table that a voices filter lets through
CellsOfVoices ==
    {c \in (1..Len(ngrams_df.index)) \X (1..Len(ngrams_df.columns)) :
        voices = {} \/ ngrams_df.columns[c[2]] \in voices}

\* C10 amended: rows with a missing pattern are absent only when a non-empty
\* selected_pattern is given; without it every (offset, voice) cell of the
\* table (of the voices selected, if any) has its row in the table returned,
\* a cell without pattern as a row whose pattern is missing.
C10_MissingKept ==
    pc = "ngram_done" =>
        /\ selected_pattern # {} =>
              \A k \in 1..Len(ngrams_out) : ngrams_out[k].pattern \in selected_pattern
        /\ selected_pattern = {} =>
              \A c \in CellsOfVoices :
                  \E k \in 1..Len(ngrams_out) :
                      /\ ngrams_out[k].start = AsFloat(ngrams_df.index[c[1]])
                      /\ ngrams_out[k].voice = ngrams_df.columns[c[2]]
                      /\ ngrams_out[k].pattern = ngrams_df.cells[c[1]][c[2]]

\* a voices filter alone returned a row whose pattern is missing
C10_Witness ==
    /\ pc = "ngram_done"
    /\ voices = {"S"}
    /\ selected_pattern = {}
    /\ \E k \in 1..Len(ngrams_out) : ngrams_out[k].pattern = NA

\* --------------------------------------------------------------- score_ngram

\* a cell of the table: a pattern string, or missing
Cell(p) == [nan |-> FALSE, v |-> p]

MissingCell == [nan |-> TRUE, v |-> <<>>]

\* "1", "1, 2", "2, 1", and "1,2" (a comma without the space: one token)
ScorePatterns ==
    {<<"1">>, <<"1", ",", " ", "2">>, <<"2", ",", " ", "1">>, <<"1", ",", "2">>}

ScoreCells == {Cell(p) : p \in ScorePatterns} \cup {MissingCell}

\* tables of two voices
ScoreTables == UNION {[1..R -> [1..2 -> ScoreCells]] : R \in 1..MaxScoreRows}

\* the comparison methods drawn: none of them symmetric in general
ScoreMethods == {"length difference", "first token found", "common prefix"}

\* ngram.stack(): the cells row by row, the missing ones dropped
RECURSIVE Stack(_, _)
Stack(t, i) ==
    IF i > Len(t) THEN <<>>
    ELSE LET present == SelectSeq(t[i], LAMBDA c : ~c.nan)
         IN [j \in 1..Len(present) |-> present[j].v] \o Stack(t, i + 1)

\* .unique(): the first occurrence of each value, in order
RECURSIVE Unique(_)
Unique(q) ==
    IF q = <<>> THEN <<>>
    ELSE LET front == Unique(Slice(q, 1, Len(q) - 1))
         IN IF \E k \in 1..Len(front) : front[k] = q[Len(q)] THEN front
            ELSE Append(front, q[Len(q)])

\* the places where ", " starts
CommaSpaces(s) == {k \in 1..(Len(s) - 1) : s[k] = "," /\ s[k + 1] = " "}

\* tuple(cell.split(", "))
RECURSIVE SplitTokens(_)
SplitTokens(s) ==
    IF CommaSpaces(s) = {} THEN <<s>>
    ELSE <<Slice(s, 1, Min(CommaSpaces(s)) - 1)>>
         \o SplitTokens(Slice(s, Min(CommaSpaces(s)) + 2, Len(s)))

RECURSIVE JoinComma(_)
JoinComma(t) ==
    IF Len(t) = 1 THEN t[1] ELSE t[1] \o <<",">> \o JoinComma(Tail(t))

\* ", ".join(item for item in cell)
RECURSIVE JoinTokens(_)
JoinTokens(t) ==
    IF Len(t) = 1 THEN t[1] ELSE t[1] \o <<",", " ">> \o JoinTokens(Tail(t))

\* the caller's method on two tuples of tokens
Method(m, a, b) ==
    CASE m = "length difference" -> Len(a) - Len(b)
      [] m = "first token found" -> IF \E k \in 1..Len(b) : b[k] = a[1] THEN 1 ELSE 0
      [] m = "common prefix" ->
            Cardinality({k \in 1..Len(a) :
                            k <= Len(b) /\ \A j \in 1..k : a[j] = b[j]})

\* MultiIndex.from_product([ser, ser]) with the score of each pair, the
\* patterns joined back into strings
ScoreEntries(ser, m) ==
    [e \in 1..(Len(ser) * Len(ser)) |->
        LET a == ser[((e - 1) \div Len(ser)) + 1]
            b == ser[((e - 1) % Len(ser)) + 1]
        IN [pattern |-> JoinTokens(a), other |-> JoinTokens(b),
            score |-> Method(m, a, b)]]

Tuples(t) ==
    LET uni == Unique(Stack(t, 1))
    IN [k \in 1..Len(uni) |-> SplitTokens(uni[k])]

ScoreInit ==
    /\ pc = "score_start"
    /\ GroupIdle
    /\ NetIdle
    /\ EmaIdle
    /\ NgramIdle
    /\ score_ngrams \in ScoreTables
    /\ score_method = NA
    /\ score_out = <<>>

\* the whole call
ScoreNgram ==
    /\ pc = "score_start"
    /\ \E m \in ScoreMethods :
          /\ score_method' = m
          /\ score_out' = ScoreEntries(Tuples(score_ngrams), m)
    /\ pc' = "score_done"
    /\ UNCHANGED <<groupVars, netVars, emaVars, ngramVars, score_ngrams>>

ScoreNext == ScoreNgram

SpecScore == ScoreInit /\ [][ScoreNext]_vars

\* ---------------------------------------------------- claims: score_ngram

\* the distinct pattern strings the table holds
PresentPatterns ==
    {c.v : c \in {score_ngrams[i][j] : i \in 1..Len(score_ngrams), j \in 1..2}
                   \ {MissingCell}}

EntriesOf(p, q) ==
    {e \in 1..Len(score_out) : score_out[e].pattern = p /\ score_out[e].other = q}

\* C11: for k distinct pattern strings the series has exactly k*k entries,
\* one for every ordered pair (p, q), self-pairs included, keyed by the
\* original strings; the entry of (p, q) is method(tokens(p), tokens(q)) with
\* tokens splitting on ", ", so (p, q) and (q, p) are scored independently.
C11_ScoreTable ==
    pc = "score_done" =>
        /\ Len(score_out) = Cardinality(PresentPatterns) * Cardinality(PresentPatterns)
        /\ \A p \in PresentPatterns : \A q \in PresentPatterns :
              /\ Cardinality(EntriesOf(p, q)) = 1
              /\ \A e \in EntriesOf(p, q) :
                    score_out[e].score
                        = Method(score_method, SplitTokens(p), SplitTokens(q))

\* three distinct patterns, one of them repeated, gave nine entries, and
\* ("1", "1, 2") and ("1, 2", "1") were scored -1 and 1
C11_Witness ==
    /\ pc = "score_done"
    /\ score_method = "length difference"
    /\ Cardinality(PresentPatterns) = 3
    /\ Len(Stack(score_ngrams, 1)) = 4
    /\ Len(score_out) = 9
    /\ \E e \in EntriesOf(<<"1">>, <<"1", ",", " ", "2">>) : score_out[e].score = 0 - 1
    /\ \E e \in EntriesOf(<<"1", ",", " ", "2">>, <<"1">>) : score_out[e].score = 1

\* ------------------------------ claims: errors of plot_relationship_network

\* C12: a color other than 'derivative' or 'model' ends the call in an error
\* for every table and every filter setting, and no node and no edge has been
\* added to a network when the error is raised.
C12_InvalidColor ==
    (pc \in {"net_done", "net_raised"} /\ color \notin {"derivative", "model"}) =>
        /\ pc = "net_raised"
        /\ nt_nodes = <<>>
        /\ nt_edges = <<>>
        /\ nt_inherit = NA

\* the call with color 'piece' on a frame that kept two rows has raised
C12_Witness ==
    /\ pc = "net_raised"
    /\ color = "piece"
    /\ Len(df) = 2
    /\ selected_families # <<>>
    /\ nt_nodes = <<>>
    /\ nt_edges = <<>>

\* the piece ids that occur in a row the earlier filters left
PiecesLeft ==
    {Root(pre[k].model) : k \in 1..Len(pre)}
        \cup {Root(pre[k].derivative) : k \in 1..Len(pre)}

\* the selected members that still occur
MembersLeft == SelectSeq(selected_families, LAMBDA m : m \in PiecesLeft)

\* C13: the family filter works on the rows the earlier filters left: a
\* selected member that occurs in none of them is listed in the printed
\* notice, adds no relatives and raises no error, and the other selected
\* members are processed as if it had not been selected.
C13_GoneMembers ==
    (pc = "net_family" /\ selected_families # <<>>) =>
        /\ gone_members = SelectSeq(selected_families, LAMBDA m : m \notin PiecesLeft)
        /\ printed = IF gone_members = <<>> THEN <<>>
                     ELSE <<[count |-> Len(gone_members), members |-> gone_members]>>
        /\ df = FamilyRows(pre, MembersLeft)
        /\ MembersLeft # <<>> => df = FamilyFilter(pre, MembersLeft)

\* P3 and P1 were selected, P3 occurs in no row left and is reported, and the
\* rows of P1's family are kept
C13_Witness ==
    /\ pc = "net_family"
    /\ selected_families = <<(<<"P3">>), (<<"P1">>)>>
    /\ gone_members = <<(<<"P3">>)>>
    /\ printed = <<[count |-> 1, members |-> <<(<<"P3">>)>>]>>
    /\ Len(pre) = 2
    /\ Len(df) = 1
    /\ Root(df[1].model) = <<"P1">>

\* ------------------------------------- claims: the groups during the pass

\* C14: after every processed row, for every root key r and every id z in
\* groups[r], the root of z is a key and groups[root(z)] is the same set as
\* groups[r]; so any two stored groups are equal or disjoint.
C14_SharedGroups ==
    /\ \A r \in DOMAIN groups : \A z \in groups[r] :
          /\ Root(z) \in DOMAIN groups
          /\ groups[Root(z)] = groups[r]
    /\ \A r1 \in DOMAIN groups : \A r2 \in DOMAIN groups :
          groups[r1] = groups[r2] \/ groups[r1] \cap groups[r2] = {}

\* C14, the part about stale groups: a row never makes the group of a key
\* smaller and never removes a key.
C14_NeverSmaller ==
    [][\A r \in DOMAIN groups : r \in DOMAIN groups' /\ groups[r] \subseteq groups'[r]]_vars

\* in the middle of the pass two groups were merged: three keys share one
\* group and a fourth id of a known root has been passed over
C14_Witness ==
    /\ pc = "group_loop"
    /\ n_rows = 3
    /\ DOMAIN groups = GroupPieces
    /\ \A r \in GroupPieces : groups[r] = groups[<<"P1">>]
    /\ Cardinality(groups[<<"P1">>]) = 3
    /\ IdsSeen \ groups[<<"P1">>] # {}

=============================================================================
